---- MODULE Spec2Model ----
(***************************************************************************)
(* A model of cat2neat/gopeek (src/gopeek.go): a Condition holds an        *)
(* ordered list of filters and a reusable dump buffer; Eval captures one   *)
(* dump of all goroutines, parses it and applies the filters in order;     *)
(* Wait polls Eval, yielding between attempts, until a result, an error or *)
(* the timeout.                                                            *)
(*                                                                         *)
(* Strings are sequences of one-character strings, a dump is a sequence of *)
(* bytes (two per goroutine), and time is an integer clock.                *)
(***************************************************************************)
EXTENDS Integers, Sequences, FiniteSets, TLC

(***************************************************************************)
(* Bounds of the model.                                                    *)
(***************************************************************************)
\* longest filter list a builder chain produces
MaxFilters == 2
\* goroutines besides the caller
MaxGoroutines == 2
\* last instant of the clock
MaxClock == 3
\* most fragments in a wait reason passed to NewState
MaxPieces == 2

(***************************************************************************)
(* State (gopeek.go: const block after type State).                        *)
(***************************************************************************)
StateIdle == 0
StateRunnable == 1
StateRunning == 2
StateSysCall == 3
StateWaiting == 4
StateDead == 5
StateEnqueue == 6
StateCopyStack == 7
StateSleeping == 8
StateWaitingChannel == 9
StateWaitingSelect == 10
StateWaitingGCActivity == 11
StateWaitingIO == 12
StateWaitingLock == 13
StateOther == 14

(***************************************************************************)
(* The wait-input strings.                                                *)
(***************************************************************************)
strIdle == <<"i", "d", "l", "e">>
strRunnable == <<"r", "u", "n", "n", "a", "b", "l", "e">>
strRunning == <<"r", "u", "n", "n", "i", "n", "g">>
strSysCall == <<"s", "y", "s", "c", "a", "l", "l">>
strWaiting == <<"w", "a", "i", "t", "i", "n", "g">>
strDead == <<"d", "e", "a", "d">>
strEnqueue == <<"e", "n", "q", "u", "e", "u", "e">>
strCopyStack == <<"c", "o", "p", "y", "s", "t", "a", "c", "k">>
strSleeping == <<"s", "l", "e", "e", "p">>
strWaitingChannel == <<"c", "h", "a", "n">>
strWaitingSelect == <<"s", "e", "l", "e", "c", "t">>
strWaitingGCActivity1 == <<"g", "c", " ">>
strWaitingGCActivity2 == <<"g", "a", "r", "b", "a", "g", "e">>
strWaitingIO == <<"I", "O", " ", "w", "a", "i", "t">>
strWaitingLock == <<"s", "e", "m">>

\* strings.ToLower on one character (ASCII letters)
LowerChar(ch) ==
    CASE ch = "A" -> "a" [] ch = "B" -> "b" [] ch = "C" -> "c" [] ch = "D" -> "d"
      [] ch = "E" -> "e" [] ch = "F" -> "f" [] ch = "G" -> "g" [] ch = "H" -> "h"
      [] ch = "I" -> "i" [] ch = "J" -> "j" [] ch = "K" -> "k" [] ch = "L" -> "l"
      [] ch = "M" -> "m" [] ch = "N" -> "n" [] ch = "O" -> "o" [] ch = "P" -> "p"
      [] ch = "Q" -> "q" [] ch = "R" -> "r" [] ch = "S" -> "s" [] ch = "T" -> "t"
      [] ch = "U" -> "u" [] ch = "V" -> "v" [] ch = "W" -> "w" [] ch = "X" -> "x"
      [] ch = "Y" -> "y" [] ch = "Z" -> "z" [] OTHER -> ch

ToLower(s) == [i \in 1..Len(s) |-> LowerChar(s[i])]

HasPrefix(s, prefix) ==
    /\ Len(s) >= Len(prefix)
    /\ SubSeq(s, 1, Len(prefix)) = prefix

Contains(s, substr) ==
    \E i \in 1..(Len(s) - Len(substr) + 1) : SubSeq(s, i, i + Len(substr) - 1) = substr

\* a NewState that tries the GC rule before the three prefixes
NewStateGCFirst(state) ==
    CASE state = strIdle -> StateIdle
      [] state = strRunnable -> StateRunnable
      [] state = strRunning -> StateRunning
      [] state = strSysCall -> StateSysCall
      [] state = strWaiting -> StateWaiting
      [] state = strDead -> StateDead
      [] state = strEnqueue -> StateEnqueue
      [] state = strCopyStack -> StateCopyStack
      [] state = strSleeping -> StateSleeping
      [] state = strWaitingIO -> StateWaitingIO
      [] OTHER ->
            IF \/ HasPrefix(ToLower(state), strWaitingGCActivity2)
               \/ Contains(ToLower(state), strWaitingGCActivity1)
            THEN StateWaitingGCActivity
            ELSE IF HasPrefix(state, strWaitingLock) THEN StateWaitingLock
            ELSE IF HasPrefix(state, strWaitingChannel) THEN StateWaitingChannel
            ELSE IF HasPrefix(state, strWaitingSelect) THEN StateWaitingSelect
            ELSE StateOther

\* func NewState(state string) State
NewState(state) ==
    CASE state = strIdle -> StateIdle
      [] state = strRunnable -> StateRunnable
      [] state = strRunning -> StateRunning
      [] state = strSysCall -> StateSysCall
      [] state = strWaiting -> StateWaiting
      [] state = strDead -> StateDead
      [] state = strEnqueue -> StateEnqueue
      [] state = strCopyStack -> StateCopyStack
      [] state = strSleeping -> StateSleeping
      [] state = strWaitingIO -> StateWaitingIO
      [] OTHER ->
            IF HasPrefix(state, strWaitingLock) THEN StateWaitingLock
            ELSE IF HasPrefix(state, strWaitingChannel) THEN StateWaitingChannel
            ELSE IF HasPrefix(state, strWaitingSelect) THEN StateWaitingSelect
            ELSE IF \/ HasPrefix(ToLower(state), strWaitingGCActivity2)
                    \/ Contains(ToLower(state), strWaitingGCActivity1)
                 THEN StateWaitingGCActivity
            ELSE StateOther

(***************************************************************************)
(* Errors.                                                                 *)
(***************************************************************************)
NoErr == "nil"
ErrTimeout == "Timeout occurred while waiting"
\* the error stack.ParseDump returns on a dump it cannot parse
ErrParse == "ParseDump failed"

(***************************************************************************)
(* Goroutines and the two collaborators: runtime.Stack and stack.ParseDump.*)
(***************************************************************************)
\* wait reasons the observed goroutines take in this model
strSemacquire == <<"s", "e", "m", "a", "c", "q", "u", "i", "r", "e">>
NotStarted == <<>>
Reasons == {strRunnable, strSemacquire}

\* the goroutine that calls Eval/Wait, and the goroutines it observes
Caller == 1
Spawned == 2..(1 + MaxGoroutines)
GIDs == {Caller} \cup Spawned

\* Signature.CreatedBy.Func.PkgDotName() of the caller and of a spawned goroutine
fnRunner == <<"t", "e", "s", "t", "i", "n", "g", ".", "t", "R", "u", "n", "n", "e", "r">>
fnTest == <<"g", "o", "p", "e", "e", "k", "_", "t", "e", "s", "t", ".", "T", "e", "s", "t",
            "G", "o", "P", "e", "e", "k", ".", "f", "u", "n", "c", "1">>
CreatedByOf(id) == IF id = Caller THEN fnRunner ELSE fnTest

\* bytes one goroutine takes in a dump: its header line and its "created by" line
BytesPerGoroutine == 2

\* the text of one goroutine in the dump
DumpOne(id, state) ==
    << [line |-> "goroutine", id |-> id, text |-> state],
       [line |-> "created by", id |-> id, text |-> CreatedByOf(id)] >>

\* the whole dump runtime.Stack(_, true) has to write: every live goroutine, by id
RECURSIVE DumpFrom(_, _)
DumpFrom(gor, id) ==
    IF id \notin DOMAIN gor THEN <<>>
    ELSE IF gor[id] = NotStarted THEN DumpFrom(gor, id + 1)
    ELSE DumpOne(id, gor[id]) \o DumpFrom(gor, id + 1)

DumpText(gor) == DumpFrom(gor, Caller)

Min(a, b) == IF a <= b THEN a ELSE b

\* make([]byte, size): a zeroed buffer; data is the prefix written so far
MakeBuf(size) == [len |-> size, data |-> <<>>]

\* runtime.Stack(b, true): writes as much of the dump as fits, returns [n, buf]
Stack(b, gor) ==
    LET text == DumpText(gor)
        k == Min(Len(text), b.len)
    IN [n |-> k,
        buf |-> [len |-> b.len,
                 data |-> SubSeq(text, 1, k) \o SubSeq(b.data, k + 1, Len(b.data))]]

\* a slice of everything the buffer holds, bytes of earlier dumps included
SliceWhole(b, k) == b.data

\* c.buf[:n]
Slice(b, k) == SubSeq(b.data, 1, k)

\* stack.ParseDump on well-formed bytes: one Goroutine per header/created-by pair
RECURSIVE ParseDump(_)
ParseDump(bytes) ==
    IF Len(bytes) < BytesPerGoroutine THEN <<>>
    ELSE << [ID |-> bytes[1].id, State |-> bytes[1].text, CreatedBy |-> bytes[2].text] >>
         \o ParseDump(SubSeq(bytes, BytesPerGoroutine + 1, Len(bytes)))

(***************************************************************************)
(* regexp, for the patterns CreatedBy is given: literal characters, ".",   *)
(* "*" after an item, and classes "[...]" of listed characters.            *)
(***************************************************************************)
\* one item of a compiled pattern: the characters it accepts, and whether it repeats
Item(any, set) == [any |-> any, set |-> set, star |-> FALSE]

\* the position of the first "]" at or after i, or 0
RECURSIVE ClassEnd(_, _)
ClassEnd(fun, i) ==
    IF i > Len(fun) THEN 0
    ELSE IF fun[i] = "]" THEN i
    ELSE ClassEnd(fun, i + 1)

\* regexp.Compile from character i on, prog being what is compiled so far:
\* "*" with nothing to repeat and "[" without "]" are syntax errors
RECURSIVE CompileFrom(_, _, _)
CompileFrom(fun, i, prog) ==
    IF i > Len(fun) THEN [ok |-> TRUE, prog |-> prog]
    ELSE IF fun[i] = "*"
    THEN IF prog = <<>> \/ prog[Len(prog)].star
         THEN [ok |-> FALSE, prog |-> <<>>]
         ELSE CompileFrom(fun, i + 1, [prog EXCEPT ![Len(prog)].star = TRUE])
    ELSE IF fun[i] = "["
    THEN IF ClassEnd(fun, i + 1) = 0
         THEN [ok |-> FALSE, prog |-> <<>>]
         ELSE CompileFrom(fun, ClassEnd(fun, i + 1) + 1,
                          Append(prog, Item(FALSE, { fun[k] : k \in (i + 1)..(ClassEnd(fun, i + 1) - 1) })))
    ELSE IF fun[i] = "."
    THEN CompileFrom(fun, i + 1, Append(prog, Item(TRUE, {})))
    ELSE CompileFrom(fun, i + 1, Append(prog, Item(FALSE, {fun[i]})))

\* regexp.Compile(fun)
Compile(fun) == CompileFrom(fun, 1, <<>>)

\* whether the items from k on match s from position j on
RECURSIVE MatchHere(_, _, _, _)
MatchHere(prog, k, s, j) ==
    IF k > Len(prog) THEN TRUE
    ELSE LET takes == j <= Len(s) /\ (prog[k].any \/ s[j] \in prog[k].set)
         IN IF prog[k].star
            THEN MatchHere(prog, k + 1, s, j) \/ (takes /\ MatchHere(prog, k, s, j + 1))
            ELSE takes /\ MatchHere(prog, k + 1, s, j + 1)

\* a Match that compares s with the pattern character by character
MatchLiteral(prog, s) ==
    /\ Len(s) = Len(prog)
    /\ \A k \in 1..Len(prog) : s[k] \in prog[k].set

\* re.Match(s): the pattern matches somewhere in s
Match(prog, s) == \E j \in 1..(Len(s) + 1) : MatchHere(prog, 1, s, j)

(***************************************************************************)
(* Filters: FilterByGo and FilterByGoes values held in c.filters.          *)
(***************************************************************************)
TypeGo == "FilterByGo"
TypeGoes == "FilterByGoes"

\* the closures the builder methods and the tests create
\* re: the compiled pattern a CreatedBy closure holds, empty in the others
Filter(type, fn, arg) == [type |-> type, fn |-> fn, arg |-> arg, re |-> <<>>]

\* closures whose In returns the comparison with the first state of its list
CallGoInFirstOnly(f, g) ==
    CASE f.fn = "true" -> TRUE
      [] f.fn = "Is" -> f.arg[1] = NewState(g.State)
      [] f.fn = "Not" -> f.arg[1] # NewState(g.State)
      [] f.fn = "In" -> Len(f.arg) > 0 /\ NewState(g.State) = f.arg[1]
      [] f.fn = "CreatedBy" -> Match(f.re, g.CreatedBy)

\* f.(FilterByGo)(&g)
CallGo(f, g) ==
    CASE f.fn = "true" -> TRUE
      [] f.fn = "Is" -> f.arg[1] = NewState(g.State)
      [] f.fn = "Not" -> f.arg[1] # NewState(g.State)
      [] f.fn = "In" -> \E i \in 1..Len(f.arg) : NewState(g.State) = f.arg[i]
      [] f.fn = "CreatedBy" -> Match(f.re, g.CreatedBy)

\* f.(FilterByGoes)(gs)
CallGoes(f, gs) ==
    CASE f.fn = "len2" -> Len(gs) = 2
      [] f.fn = "GT" -> Len(gs) > f.arg[1]
      [] f.fn = "LT" -> Len(gs) < f.arg[1]
      [] f.fn = "EQ" -> Len(gs) = f.arg[1]

(***************************************************************************)
(* Eval's filter loop.  gs is a slice: either the parsed snapshot or a     *)
(* prefix of the array behind ngs, which every FilterByGo pass refills     *)
(* from index 0 while ranging over gs.                                     *)
(***************************************************************************)
ZeroGoroutine == [ID |-> 0, State |-> <<>>, CreatedBy |-> <<>>]

\* the element gs[i] as the range loop reads it
ElemAt(cur, parsed, i) == IF cur.onNgs THEN cur.arr[i] ELSE parsed[i]

\* the slice gs as a sequence
SliceOf(cur, parsed) == [i \in 1..cur.len |-> ElemAt(cur, parsed, i)]

\* a range loop that reads the parsed snapshot instead of the current gs
RECURSIVE RangeAppendFromParsed(_, _, _, _, _, _)
RangeAppendFromParsed(f, cur, parsed, i, j, arr) ==
    IF i > cur.len THEN [arr |-> arr, len |-> j]
    ELSE IF CallGo(f, parsed[i])
         THEN RangeAppendFromParsed(f, cur, parsed, i + 1, j + 1,
                                    [arr EXCEPT ![j + 1] = parsed[i]])
         ELSE RangeAppendFromParsed(f, cur, parsed, i + 1, j, arr)

\* for _, g := range gs { if f(&g) { ngs = append(ngs, g) } }
\* i: next index read, j: len(ngs) so far, arr: the array behind ngs
RECURSIVE RangeAppend(_, _, _, _, _, _)
RangeAppend(f, cur, parsed, i, j, arr) ==
    IF i > cur.len THEN [arr |-> arr, len |-> j]
    ELSE LET g == IF cur.onNgs THEN arr[i] ELSE parsed[i]
         IN IF CallGo(f, g)
            THEN RangeAppend(f, cur, parsed, i + 1, j + 1, [arr EXCEPT ![j + 1] = g])
            ELSE RangeAppend(f, cur, parsed, i + 1, j, arr)

\* a filter loop without "gs = ngs": a FilterByGo pass does not narrow gs
RECURSIVE FilterLoopNoUpdate(_, _, _, _)
FilterLoopNoUpdate(fs, k, cur, parsed) ==
    IF k > Len(fs) THEN [gs |-> SliceOf(cur, parsed), rejected |-> FALSE, called |-> k - 1]
    ELSE IF fs[k].type = TypeGo
    THEN IF RangeAppend(fs[k], cur, parsed, 1, 0, cur.arr).len = 0
         THEN [gs |-> <<>>, rejected |-> TRUE, called |-> k]
         ELSE FilterLoopNoUpdate(fs, k + 1, cur, parsed)
    ELSE IF ~CallGoes(fs[k], SliceOf(cur, parsed))
         THEN [gs |-> <<>>, rejected |-> TRUE, called |-> k]
         ELSE FilterLoopNoUpdate(fs, k + 1, cur, parsed)

\* a filter loop without the return on an empty ngs
RECURSIVE FilterLoopNoExit(_, _, _, _)
FilterLoopNoExit(fs, k, cur, parsed) ==
    IF k > Len(fs) THEN [gs |-> SliceOf(cur, parsed), rejected |-> FALSE, called |-> k - 1]
    ELSE IF fs[k].type = TypeGo
    THEN LET r == RangeAppend(fs[k], cur, parsed, 1, 0, cur.arr)
         IN FilterLoopNoExit(fs, k + 1, [onNgs |-> TRUE, len |-> r.len, arr |-> r.arr], parsed)
    ELSE IF ~CallGoes(fs[k], SliceOf(cur, parsed))
         THEN [gs |-> <<>>, rejected |-> TRUE, called |-> k]
         ELSE FilterLoopNoExit(fs, k + 1, cur, parsed)

\* a filter loop whose FilterByGo passes range over the parsed snapshot
RECURSIVE FilterLoopRestarts(_, _, _, _)
FilterLoopRestarts(fs, k, cur, parsed) ==
    IF k > Len(fs) THEN [gs |-> SliceOf(cur, parsed), rejected |-> FALSE, called |-> k - 1]
    ELSE IF fs[k].type = TypeGo
    THEN LET r == RangeAppend(fs[k], [onNgs |-> FALSE, len |-> Len(parsed), arr |-> cur.arr],
                              parsed, 1, 0, cur.arr)
         IN IF r.len = 0
            THEN [gs |-> <<>>, rejected |-> TRUE, called |-> k]
            ELSE FilterLoopRestarts(fs, k + 1, [onNgs |-> TRUE, len |-> r.len, arr |-> r.arr],
                                    parsed)
    ELSE IF ~CallGoes(fs[k], SliceOf(cur, parsed))
         THEN [gs |-> <<>>, rejected |-> TRUE, called |-> k]
         ELSE FilterLoopRestarts(fs, k + 1, cur, parsed)

\* for _, f := range c.filters { ... } from filter k on
\* returns the goroutines, whether a filter rejected, and the filters called
RECURSIVE FilterLoop(_, _, _, _)
FilterLoop(fs, k, cur, parsed) ==
    IF k > Len(fs) THEN [gs |-> SliceOf(cur, parsed), rejected |-> FALSE, called |-> k - 1]
    ELSE IF fs[k].type = TypeGo
    THEN LET r == RangeAppend(fs[k], cur, parsed, 1, 0, cur.arr)
         IN IF r.len = 0
            THEN [gs |-> <<>>, rejected |-> TRUE, called |-> k]
            ELSE FilterLoop(fs, k + 1, [onNgs |-> TRUE, len |-> r.len, arr |-> r.arr], parsed)
    ELSE IF ~CallGoes(fs[k], SliceOf(cur, parsed))
         THEN [gs |-> <<>>, rejected |-> TRUE, called |-> k]
         ELSE FilterLoop(fs, k + 1, cur, parsed)

\* an Eval that ends with "return ngs, nil": the outer ngs, which stays empty
ApplyFiltersReturnsNgs(fs, parsed) ==
    LET out == FilterLoop(fs, 1,
                          [onNgs |-> FALSE, len |-> Len(parsed),
                           arr |-> [i \in 1..Len(parsed) |-> ZeroGoroutine]],
                          parsed)
    IN [out EXCEPT !.gs = <<>>]

\* Eval from "ngs := make(...)" to its return, on the parsed snapshot
ApplyFilters(fs, parsed) ==
    FilterLoop(fs, 1,
               [onNgs |-> FALSE, len |-> Len(parsed),
                arr |-> [i \in 1..Len(parsed) |-> ZeroGoroutine]],
               parsed)

(***************************************************************************)
(* Condition: construction and the builder methods.                        *)
(***************************************************************************)
defaultFilterSize == 10
defaultBufSize == 1048576

\* Option values
WithFilterSize(fs) == [opt |-> "WithFilterSize", v |-> fs]
WithBufSize(bs) == [opt |-> "WithBufSize", v |-> bs]

\* opt(c) for each of opts, on a Condition whose fields start nil
RECURSIVE ApplyOpts(_, _, _)
ApplyOpts(opts, i, cond) ==
    IF i > Len(opts) THEN cond
    ELSE IF opts[i].opt = "WithFilterSize"
    THEN ApplyOpts(opts, i + 1, [cond EXCEPT !.filtersNil = FALSE, !.cap = opts[i].v])
    ELSE ApplyOpts(opts, i + 1,
                   [cond EXCEPT !.bufNil = FALSE, !.buf = MakeBuf(opts[i].v)])

\* func NewCondition(opts ...Option) *Condition
NewCondition(opts) ==
    LET made == ApplyOpts(opts, 1, [filtersNil |-> TRUE, cap |-> 0,
                                    bufNil |-> TRUE, buf |-> MakeBuf(0)])
    IN [filters |-> <<>>,
        cap |-> IF made.filtersNil THEN defaultFilterSize ELSE made.cap,
        buf |-> IF made.bufNil THEN MakeBuf(defaultBufSize) ELSE made.buf]

\* an append that puts the new filter in front of the list
AppendFilterInFront(cond, f) ==
    [cond EXCEPT !.filters = <<f>> \o cond.filters,
                 !.cap = IF Len(cond.filters) < cond.cap THEN cond.cap
                         ELSE IF cond.cap = 0 THEN 1
                         ELSE 2 * cond.cap]

\* c.filters = append(c.filters, f): the list grows in place while capacity lasts
AppendFilter(cond, f) ==
    [cond EXCEPT !.filters = Append(cond.filters, f),
                 !.cap = IF Len(cond.filters) < cond.cap THEN cond.cap
                         ELSE IF cond.cap = 0 THEN 1
                         ELSE 2 * cond.cap]

FilterByGo(cond, f) == AppendFilter(cond, Filter(TypeGo, f, <<>>))
FilterByGoes(cond, f) == AppendFilter(cond, Filter(TypeGoes, f, <<>>))
GT(cond, v) == AppendFilter(cond, Filter(TypeGoes, "GT", <<v>>))
LT(cond, v) == AppendFilter(cond, Filter(TypeGoes, "LT", <<v>>))
EQ(cond, v) == AppendFilter(cond, Filter(TypeGoes, "EQ", <<v>>))
Is(cond, state) == AppendFilter(cond, Filter(TypeGo, "Is", <<state>>))
Not(cond, state) == AppendFilter(cond, Filter(TypeGo, "Not", <<state>>))
In(cond, states) == AppendFilter(cond, Filter(TypeGo, "In", states))

\* CreatedBy once regexp.MustCompile(fun) has returned re
CreatedBy(cond, fun) ==
    AppendFilter(cond, [Filter(TypeGo, "CreatedBy", <<>>) EXCEPT !.re = Compile(fun).prog])

(***************************************************************************)
(* Inputs the callers of this model pass.                                  *)
(***************************************************************************)
\* option lists given to NewCondition
OptLists == { <<>>, <<WithBufSize(0)>>, <<WithBufSize(1), WithFilterSize(0)>> }
\* user-defined filters, as in the tests
UserGo == {"true"}
UserGoes == {"len2"}
\* arguments of GT, LT and EQ
CountArgs == {1, 2}
\* arguments of Is and Not
StateArgs == {StateWaitingLock}
\* arguments of In
InArgs == { <<StateRunnable, StateWaitingLock>> }
\* patterns given to CreatedBy: the test's, one with a class, and two that
\* do not compile ("*" with nothing to repeat, "[" never closed)
patTest ==
    <<"g", "o", "p", "e", "e", "k", "_", "t", "e", "s", "t", ".", "T", "e", "s", "t",
      "G", "o", "P", "e", "e", "k", ".", "*">>
patRunner == <<"[", ".", "]", "t", "R">>
patNoArgument == <<"*", "T", "e", "s", "t">>
patNoClosing == <<"[", "T", "e", "s", "t">>
Patterns == {patTest, patRunner, patNoArgument, patNoClosing}
\* timeouts given to Wait
Timeouts == {-1, 0, 1, 2}

(***************************************************************************)
(* The state.                                                              *)
(***************************************************************************)
VARIABLES
    c,           \* the Condition: filters, cap(filters), buf
    goroutines,  \* id -> wait reason of every goroutine (NotStarted: none yet)
    now,         \* time.Now()
    pc,          \* where the caller is: idle, stack, grow, parse, check, yield, done
    call,        \* the method being called or last called: none, Eval, Wait
    timeout,     \* Wait's argument
    start,       \* Wait's start
    n,           \* Eval's n
    len0,        \* len(c.buf) when the running Eval began
    res,         \* what the latest Eval returned: gs, err (Wait's gs, err)
    ret,         \* what the call returned to the caller: gs, err
    parsed,      \* the goroutines stack.ParseDump returned in the latest Eval
    parseFailed, \* whether stack.ParseDump failed in the latest Eval
    called,      \* how many filters the latest Eval called
    settled,     \* an Eval of this Wait returned goroutines or an error
    expired,     \* a deadline check of this Wait found the timeout passed
    polled,      \* this Wait yielded at least once
    input,       \* the string last passed to NewState by the caller
    classified   \* the State that call returned

vars == <<c, goroutines, now, pc, call, timeout, start, n, len0, res, ret,
          parsed, parseFailed, called, settled, expired, polled, input, classified>>

NoResult == [gs |-> <<>>, err |-> NoErr]

\* a caller with no call made yet
Fresh ==
    /\ now = 0
    /\ pc = "idle"
    /\ call = "none"
    /\ timeout = 0
    /\ start = 0
    /\ n = 0
    /\ len0 = 0
    /\ res = NoResult
    /\ ret = NoResult
    /\ parsed = <<>>
    /\ parseFailed = FALSE
    /\ called = 0
    /\ settled = FALSE
    /\ expired = FALSE
    /\ polled = FALSE
    /\ input = <<>>
    /\ classified = StateOther

\* the previous call's results go out of scope
Forget ==
    /\ call' = "none"
    /\ timeout' = 0
    /\ start' = 0
    /\ n' = 0
    /\ len0' = 0
    /\ res' = NoResult
    /\ ret' = NoResult
    /\ parsed' = <<>>
    /\ parseFailed' = FALSE
    /\ called' = 0
    /\ settled' = FALSE
    /\ expired' = FALSE
    /\ polled' = FALSE

CanBuild == pc \in {"idle", "done"} /\ Len(c.filters) < MaxFilters

\* one builder call: the method appends its filter and returns c
Build(cond) ==
    /\ CanBuild
    /\ c' = cond
    /\ pc' = "idle"
    /\ Forget
    /\ UNCHANGED <<goroutines, now, input, classified>>

DoFilterByGo == \E f \in UserGo : Build(FilterByGo(c, f))
DoFilterByGoes == \E f \in UserGoes : Build(FilterByGoes(c, f))
DoGT == \E v \in CountArgs : Build(GT(c, v))
DoLT == \E v \in CountArgs : Build(LT(c, v))
DoEQ == \E v \in CountArgs : Build(EQ(c, v))
DoIs == \E s \in StateArgs : Build(Is(c, s))
DoNot == \E s \in StateArgs : Build(Not(c, s))
DoIn == \E ss \in InArgs : Build(In(c, ss))

\* regexp.MustCompile panics: CreatedBy is left before its append
Panic ==
    /\ CanBuild
    /\ c' = c
    /\ pc' = "panic"
    /\ Forget
    /\ UNCHANGED <<goroutines, now, input, classified>>

\* a CreatedBy that appends its closure whether or not the pattern compiles
DoCreatedByUnchecked == \E fun \in Patterns : Build(CreatedBy(c, fun))

\* re := regexp.MustCompile(fun), then the append
DoCreatedBy ==
    \E fun \in Patterns :
        IF Compile(fun).ok THEN Build(CreatedBy(c, fun)) ELSE Panic

\* the caller recovers from the panic and goes on with c
Recover ==
    /\ pc = "panic"
    /\ pc' = "idle"
    /\ UNCHANGED <<c, goroutines, now, call, timeout, start, n, len0, res, ret,
                   parsed, parseFailed, called, settled, expired, polled, input, classified>>

(***************************************************************************)
(* Eval, in the steps other goroutines can interleave with.                *)
(***************************************************************************)
\* entry of Eval
BeginEval ==
    /\ pc' = "stack"
    /\ n' = 0
    /\ len0' = c.buf.len
    /\ res' = NoResult
    /\ parsed' = <<>>
    /\ parseFailed' = FALSE
    /\ called' = 0

\* an Eval that starts on a buffer of one byte allocated for the call
CallEvalFreshBuf ==
    /\ pc \in {"idle", "done"}
    /\ call' = "Eval"
    /\ BeginEval
    /\ c' = [c EXCEPT !.buf = MakeBuf(1)]
    /\ ret' = NoResult
    /\ timeout' = 0
    /\ start' = 0
    /\ settled' = FALSE
    /\ expired' = FALSE
    /\ polled' = FALSE
    /\ UNCHANGED <<goroutines, now, input, classified>>

\* the caller calls c.Eval()
CallEval ==
    /\ pc \in {"idle", "done"}
    /\ call' = "Eval"
    /\ BeginEval
    /\ ret' = NoResult
    /\ timeout' = 0
    /\ start' = 0
    /\ settled' = FALSE
    /\ expired' = FALSE
    /\ polled' = FALSE
    /\ UNCHANGED <<c, goroutines, now, input, classified>>

\* a capture loop that grows only when more than the buffer was written: "n > len(c.buf)"
StackStepParsesFull ==
    /\ pc = "stack"
    /\ LET r == Stack(c.buf, goroutines)
       IN /\ n' = r.n
          /\ c' = [c EXCEPT !.buf = r.buf]
          /\ pc' = IF r.n > c.buf.len THEN "grow" ELSE "parse"
    /\ UNCHANGED <<goroutines, now, call, timeout, start, len0, res, ret,
                   parsed, parseFailed, called, settled, expired, polled, input, classified>>

\* n = runtime.Stack(c.buf, true); if n == len(c.buf) { grow } else { break }
StackStep ==
    /\ pc = "stack"
    /\ LET r == Stack(c.buf, goroutines)
       IN /\ n' = r.n
          /\ c' = [c EXCEPT !.buf = r.buf]
          /\ pc' = IF r.n = c.buf.len THEN "grow" ELSE "parse"
    /\ UNCHANGED <<goroutines, now, call, timeout, start, len0, res, ret,
                   parsed, parseFailed, called, settled, expired, polled, input, classified>>

\* c.buf = make([]byte, n*2); continue
Grow ==
    /\ pc = "grow"
    /\ c' = [c EXCEPT !.buf = MakeBuf(n * 2)]
    /\ pc' = "stack"
    /\ UNCHANGED <<goroutines, now, call, timeout, start, n, len0, res, ret,
                   parsed, parseFailed, called, settled, expired, polled, input, classified>>

\* what Eval returns once the dump is captured; fails: stack.ParseDump returns an error
EvalResult(fails) ==
    IF fails THEN [gs |-> <<>>, err |-> ErrParse, parsed |-> <<>>, called |-> 0]
    ELSE LET gs0 == ParseDump(Slice(c.buf, n))
             out == ApplyFilters(c.filters, gs0)
         IN [gs |-> out.gs, err |-> NoErr, parsed |-> gs0, called |-> out.called]

\* buf := c.buf[:n]; gs, err := stack.ParseDump(...); the filter loop; return
Parse(fails) ==
    /\ pc = "parse"
    /\ LET out == EvalResult(fails)
       IN /\ res' = [gs |-> out.gs, err |-> out.err]
          /\ parsed' = out.parsed
          /\ called' = out.called
          /\ parseFailed' = fails
          /\ settled' = (settled \/ out.err # NoErr \/ Len(out.gs) > 0)
          /\ IF call = "Eval"
             THEN /\ ret' = [gs |-> out.gs, err |-> out.err]
                  /\ pc' = "done"
             ELSE /\ ret' = ret
                  /\ pc' = "check"
    /\ UNCHANGED <<c, goroutines, now, call, timeout, start, n, len0, expired, polled,
                   input, classified>>

ParseStep == \E fails \in BOOLEAN : Parse(fails)

(***************************************************************************)
(* Wait.                                                                   *)
(***************************************************************************)
\* the caller calls c.Wait(t): start := time.Now(), then the first Eval
CallWait(t) ==
    /\ pc \in {"idle", "done"}
    /\ t > 0 => now + t < MaxClock
    /\ call' = "Wait"
    /\ timeout' = t
    /\ start' = now
    /\ BeginEval
    /\ ret' = NoResult
    /\ settled' = FALSE
    /\ expired' = FALSE
    /\ polled' = FALSE
    /\ UNCHANGED <<c, goroutines, now, input, classified>>

DoWait == \E t \in Timeouts : CallWait(t)

\* a Wait that wants more than one goroutine: "if len(gs) > 1"
WaitOutcomeMoreThanOne(gs, err, t, elapsed) ==
    IF err # NoErr THEN [do |-> "return", gs |-> <<>>, err |-> err]
    ELSE IF Len(gs) > 1 THEN [do |-> "return", gs |-> gs, err |-> NoErr]
    ELSE IF t > 0 /\ elapsed > t THEN [do |-> "return", gs |-> <<>>, err |-> ErrTimeout]
    ELSE [do |-> "poll", gs |-> <<>>, err |-> NoErr]

\* a Wait whose deadline is inclusive: "Sub(start) >= timeout"
WaitOutcomeInclusive(gs, err, t, elapsed) ==
    IF err # NoErr THEN [do |-> "return", gs |-> <<>>, err |-> err]
    ELSE IF Len(gs) > 0 THEN [do |-> "return", gs |-> gs, err |-> NoErr]
    ELSE IF t > 0 /\ elapsed >= t THEN [do |-> "return", gs |-> <<>>, err |-> ErrTimeout]
    ELSE [do |-> "poll", gs |-> <<>>, err |-> NoErr]

\* a Wait that takes a zero timeout for a deadline: "timeout >= 0"
WaitOutcomeZeroDeadline(gs, err, t, elapsed) ==
    IF err # NoErr THEN [do |-> "return", gs |-> <<>>, err |-> err]
    ELSE IF Len(gs) > 0 THEN [do |-> "return", gs |-> gs, err |-> NoErr]
    ELSE IF t >= 0 /\ elapsed > t THEN [do |-> "return", gs |-> <<>>, err |-> ErrTimeout]
    ELSE [do |-> "poll", gs |-> <<>>, err |-> NoErr]

\* a Wait that polls again after an Eval error
WaitOutcomeRetries(gs, err, t, elapsed) ==
    IF err = NoErr /\ Len(gs) > 0 THEN [do |-> "return", gs |-> gs, err |-> NoErr]
    ELSE IF t > 0 /\ elapsed > t THEN [do |-> "return", gs |-> <<>>, err |-> ErrTimeout]
    ELSE [do |-> "poll", gs |-> <<>>, err |-> NoErr]

\* a Wait that looks at the deadline before the result of the Eval
WaitOutcomeDeadlineFirst(gs, err, t, elapsed) ==
    IF t > 0 /\ elapsed > t THEN [do |-> "return", gs |-> <<>>, err |-> ErrTimeout]
    ELSE IF err # NoErr THEN [do |-> "return", gs |-> <<>>, err |-> err]
    ELSE IF Len(gs) > 0 THEN [do |-> "return", gs |-> gs, err |-> NoErr]
    ELSE [do |-> "poll", gs |-> <<>>, err |-> NoErr]

\* what Wait does with the gs, err of an Eval: the result it returns, or "poll"
WaitOutcome(gs, err, t, elapsed) ==
    IF err # NoErr THEN [do |-> "return", gs |-> <<>>, err |-> err]
    ELSE IF Len(gs) > 0 THEN [do |-> "return", gs |-> gs, err |-> NoErr]
    ELSE IF t > 0 /\ elapsed > t THEN [do |-> "return", gs |-> <<>>, err |-> ErrTimeout]
    ELSE [do |-> "poll", gs |-> <<>>, err |-> NoErr]

\* the three ifs after Eval in Wait's loop
Check ==
    /\ pc = "check"
    /\ LET out == WaitOutcome(res.gs, res.err, timeout, now - start)
       IN /\ expired' = (expired \/ (timeout > 0 /\ now - start > timeout))
          /\ IF out.do = "return"
             THEN /\ ret' = [gs |-> out.gs, err |-> out.err]
                  /\ pc' = "done"
             ELSE /\ ret' = ret
                  /\ pc' = "yield"
    /\ UNCHANGED <<c, goroutines, now, call, timeout, start, n, len0, res,
                   parsed, parseFailed, called, settled, polled, input, classified>>

\* a Wait that sleeps one tick between attempts instead of yielding
Sleep ==
    /\ pc = "yield"
    /\ now < MaxClock
    /\ now' = now + 1
    /\ BeginEval
    /\ polled' = TRUE
    /\ UNCHANGED <<c, goroutines, call, timeout, start, ret, settled, expired,
                   input, classified>>

\* runtime.Gosched(), then the next Eval
Gosched ==
    /\ pc = "yield"
    /\ BeginEval
    /\ polled' = TRUE
    /\ UNCHANGED <<c, goroutines, now, call, timeout, start, ret, settled, expired,
                   input, classified>>

(***************************************************************************)
(* The rest of the process: the clock and the observed goroutines.         *)
(***************************************************************************)
Tick ==
    /\ now < MaxClock
    /\ call = "Wait"
    /\ pc # "done"
    /\ now' = now + 1
    /\ UNCHANGED <<c, goroutines, pc, call, timeout, start, n, len0, res, ret,
                   parsed, parseFailed, called, settled, expired, polled, input, classified>>

\* go func() {...}(): a goroutine starts
Go(id) ==
    /\ goroutines[id] = NotStarted
    /\ goroutines' = [goroutines EXCEPT ![id] = strRunnable]
    /\ UNCHANGED <<c, now, pc, call, timeout, start, n, len0, res, ret,
                   parsed, parseFailed, called, settled, expired, polled, input, classified>>

\* a running goroutine blocks, as in cond.Wait()
Block(id, reason) ==
    /\ goroutines[id] = strRunnable
    /\ goroutines' = [goroutines EXCEPT ![id] = reason]
    /\ UNCHANGED <<c, now, pc, call, timeout, start, n, len0, res, ret,
                   parsed, parseFailed, called, settled, expired, polled, input, classified>>

\* a running goroutine returns from its function: it is in no later dump
Exit(id) ==
    /\ goroutines[id] = strRunnable
    /\ goroutines' = [goroutines EXCEPT ![id] = NotStarted]
    /\ UNCHANGED <<c, now, pc, call, timeout, start, n, len0, res, ret,
                   parsed, parseFailed, called, settled, expired, polled, input, classified>>

ExitStep == \E id \in Spawned : Exit(id)
GoStep == \E id \in Spawned : Go(id)
BlockStep == \E id \in Spawned : Block(id, strSemacquire)

(***************************************************************************)
(* NewState called directly, as TestState does.                            *)
(***************************************************************************)
\* the table of TestState: wait reasons and the State expected for each
TestStateTable ==
    << [input |-> <<"i", "d", "l", "e">>,
        expected |-> StateIdle],
       [input |-> <<"r", "u", "n", "n", "a", "b", "l", "e">>,
        expected |-> StateRunnable],
       [input |-> <<"r", "u", "n", "n", "i", "n", "g">>,
        expected |-> StateRunning],
       [input |-> <<"s", "y", "s", "c", "a", "l", "l">>,
        expected |-> StateSysCall],
       [input |-> <<"w", "a", "i", "t", "i", "n", "g">>,
        expected |-> StateWaiting],
       [input |-> <<"d", "e", "a", "d">>,
        expected |-> StateDead],
       [input |-> <<"e", "n", "q", "u", "e", "u", "e">>,
        expected |-> StateEnqueue],
       [input |-> <<"c", "o", "p", "y", "s", "t", "a", "c", "k">>,
        expected |-> StateCopyStack],
       [input |-> <<"s", "l", "e", "e", "p">>,
        expected |-> StateSleeping],
       [input |-> <<"c", "h", "a", "n", " ", "s", "e", "n", "d">>,
        expected |-> StateWaitingChannel],
       [input |-> <<"c", "h", "a", "n", " ", "r", "e", "c", "e", "i", "v", "e">>,
        expected |-> StateWaitingChannel],
       [input |-> <<"s", "e", "l", "e", "c", "t">>,
        expected |-> StateWaitingSelect],
       [input |-> <<"s", "e", "l", "e", "c", "t", " ", "(", "n", "o", " ", "c", "a", "s", "e", "s", ")">>,
        expected |-> StateWaitingSelect],
       [input |-> <<"I", "O", " ", "w", "a", "i", "t">>,
        expected |-> StateWaitingIO],
       [input |-> <<"s", "e", "m", "a", "c", "q", "u", "i", "r", "e">>,
        expected |-> StateWaitingLock],
       [input |-> <<"s", "e", "m", "a", "r", "e", "l", "e", "a", "s", "e">>,
        expected |-> StateWaitingLock],
       [input |-> <<"G", "C", " ", "s", "w", "e", "e", "p", " ", "w", "a", "i", "t">>,
        expected |-> StateWaitingGCActivity],
       [input |-> <<"G", "C", " ", "a", "s", "s", "i", "s", "t", " ", "w", "a", "i", "t">>,
        expected |-> StateWaitingGCActivity],
       [input |-> <<"f", "o", "r", "c", "e", " ", "g", "c", " ", "(", "i", "d", "l", "e", ")">>,
        expected |-> StateWaitingGCActivity],
       [input |-> <<"G", "C", " ", "a", "s", "s", "i", "s", "t", " ", "m", "a", "r", "k", "i", "n", "g">>,
        expected |-> StateWaitingGCActivity],
       [input |-> <<"g", "a", "r", "b", "a", "g", "e", " ", "c", "o", "l", "l", "e", "c", "t", "i", "o", "n", " ", "s", "c", "a", "n">>,
        expected |-> StateWaitingGCActivity],
       [input |-> <<"g", "a", "r", "b", "a", "g", "e", " ", "c", "o", "l", "l", "e", "c", "t", "i", "o", "n">>,
        expected |-> StateWaitingGCActivity],
       [input |-> <<"p", "a", "n", "i", "c", "w", "a", "i", "t">>,
        expected |-> StateOther],
       [input |-> <<"s", "t", "a", "c", "k", " ", "g", "r", "o", "w", "t", "h">>,
        expected |-> StateOther],
       [input |-> <<"d", "u", "m", "p", "i", "n", "g", " ", "h", "e", "a", "p">>,
        expected |-> StateOther],
       [input |-> <<"t", "r", "a", "c", "e", " ", "r", "e", "a", "d", "e", "r", " ", "(", "b", "l", "o", "c", "k", "e", "d", ")">>,
        expected |-> StateOther],
       [input |-> <<"f", "i", "n", "a", "l", "i", "z", "e", "r", " ", "w", "a", "i", "t">>,
        expected |-> StateOther],
       [input |-> <<"t", "i", "m", "e", "r", " ", "g", "o", "r", "o", "u", "t", "i", "n", "e", " ", "(", "i", "d", "l", "e", ")">>,
        expected |-> StateOther] >>

\* fragments of wait reasons the inputs are built from
Pieces ==
    { <<"s", "e", "m">>,
      <<"c", "h", "a", "n">>,
      <<"s", "e", "l", "e", "c", "t">>,
      <<"g", "c", " ">>,
      <<"G", "C", " ">>,
      <<"g", "a", "r", "b", "a", "g", "e">>,
      <<"G", "a", "r", "b", "a", "g", "e">>,
      <<"I", "d", "l", "e">>,
      <<"x">> }

\* the concatenations of at most k pieces
RECURSIVE Concats(_)
Concats(k) ==
    IF k = 0 THEN { <<>> }
    ELSE Concats(k - 1) \cup { s \o p : s \in Concats(k - 1), p \in Pieces }

\* the strings passed to NewState
Inputs == { TestStateTable[i].input : i \in DOMAIN TestStateTable } \cup Concats(MaxPieces)

\* s := gopeek.NewState(ts.input)
CallNewState(s) ==
    /\ pc \in {"idle", "done"}
    /\ input' = s
    /\ classified' = NewState(s)
    /\ call' = "NewState"
    /\ pc' = "done"
    /\ UNCHANGED <<c, goroutines, now, timeout, start, n, len0, res, ret,
                   parsed, parseFailed, called, settled, expired, polled>>

DoNewState == \E s \in Inputs : CallNewState(s)

(***************************************************************************)
(* Specifications.                                                         *)
(***************************************************************************)
\* the caller goroutine is running; the others are in any state
GoroutineStates ==
    { g \in [GIDs -> Reasons \cup {NotStarted, strRunning}] :
        /\ g[Caller] = strRunning
        /\ \A id \in Spawned : g[id] # strRunning }

\* the filter engine: builder chains and Eval on a snapshot of any goroutines
Init ==
    /\ c \in { NewCondition(opts) : opts \in OptLists }
    /\ goroutines \in GoroutineStates
    /\ Fresh

Next ==
    \/ DoFilterByGo
    \/ DoFilterByGoes
    \/ DoGT
    \/ DoLT
    \/ DoEQ
    \/ DoIs
    \/ DoNot
    \/ DoIn
    \/ CallEval
    \/ StackStep
    \/ Grow
    \/ ParseStep

Spec == Init /\ [][Next]_vars

\* the caller's goroutine is scheduled again and again
CallerStep == StackStep \/ Grow \/ ParseStep \/ Check \/ Gosched

FairSpec == Spec /\ WF_vars(CallerStep)

\* the same scheduling, told by the caller's position: each step of CallerStep
\* is enabled by pc alone and moves pc
Positions == {"idle", "stack", "grow", "parse", "check", "yield", "done", "panic"}
CallerMoves == pc \in {"stack", "grow", "parse", "check", "yield"} /\ pc' \in Positions \ {pc}

\* the Conditions the wait driver is run on
NeverHolds(opts) == GT(In(NewCondition(opts), <<StateSysCall, StateWaitingIO>>), 1)
AllBlocked(opts) == EQ(Is(NewCondition(opts), StateWaitingLock), MaxGoroutines)
AnyGoroutine(opts) == NewCondition(opts)
WaitConditions ==
    UNION { {NeverHolds(opts), AllBlocked(opts), AnyGoroutine(opts)} : opts \in OptLists }

\* the wait driver: Wait on a built Condition while goroutines start and block
WaitInit ==
    /\ c \in WaitConditions
    /\ goroutines = [id \in GIDs |-> IF id = Caller THEN strRunning ELSE NotStarted]
    /\ Fresh

WaitNext ==
    \/ DoWait
    \/ StackStep
    \/ Grow
    \/ ParseStep
    \/ Check
    \/ Gosched
    \/ Tick
    \/ GoStep
    \/ BlockStep

WaitSpec == WaitInit /\ [][WaitNext]_vars

\* the wait driver alone: Wait on a built Condition while no goroutine starts,
\* the caller is scheduled again and again and the clock advances
DeadlineInit == WaitInit

DeadlineNext ==
    \/ DoWait
    \/ StackStep
    \/ Grow
    \/ ParseStep
    \/ Check
    \/ Gosched
    \/ Tick

DeadlineSpec ==
    DeadlineInit /\ [][DeadlineNext]_vars /\ WF_vars(CallerStep) /\ WF_vars(Tick)

\* the classifier alone: NewState called on one wait reason after another
ClassifyInit ==
    /\ c = NewCondition(<<>>)
    /\ goroutines = [id \in GIDs |-> IF id = Caller THEN strRunning ELSE NotStarted]
    /\ Fresh

ClassifyNext == DoNewState

ClassifySpec == ClassifyInit /\ [][ClassifyNext]_vars

\* CreatedBy chains: patterns that compile and patterns that do not, then Eval
PatternInit == Init

PatternNext ==
    \/ DoCreatedBy
    \/ Recover
    \/ CallEval
    \/ StackStep
    \/ Grow
    \/ ParseStep

PatternSpec == PatternInit /\ [][PatternNext]_vars

\* the lock scenario of TestGoPeek: three goroutines are spawned, each locks
\* and waits on a sync.Cond, and the caller waits for all three to block
LockUnits == 3
LockBufSize == 4096
LockGIDs == 2..(1 + LockUnits)
LockTimeout == 1

LockCondition ==
    EQ(Is(CreatedBy(NewCondition(<<WithBufSize(LockBufSize), WithFilterSize(LockUnits)>>),
                    patTest),
          StateWaitingLock),
       LockUnits)

\* after the three go statements
LockInit ==
    /\ c = LockCondition
    /\ goroutines = [id \in {Caller} \cup LockGIDs |->
                        IF id = Caller THEN strRunning ELSE strRunnable]
    /\ Fresh

\* cond.L.Lock(); cond.Wait() in one of the spawned goroutines
LockStep == \E id \in LockGIDs : Block(id, strSemacquire)

LockWait == CallWait(LockTimeout)

LockNext ==
    \/ LockWait
    \/ StackStep
    \/ ParseStep
    \/ Check
    \/ Gosched
    \/ Tick
    \/ LockStep

\* every goroutine is scheduled again and again; the clock may stand still
LockSpec ==
    /\ LockInit
    /\ [][LockNext]_vars
    /\ WF_pc(CallerMoves)
    /\ WF_vars(LockStep)

\* one Condition used for call after call, Eval and Wait without a deadline,
\* while goroutines start, block and return
ReuseConditions ==
    { Is(NewCondition(<<WithBufSize(1)>>), StateWaitingLock),
      NewCondition(<<WithBufSize(1)>>),
      NewCondition(<<WithBufSize(0)>>),
      NewCondition(<<>>) }

ReuseInit ==
    /\ c \in ReuseConditions
    /\ goroutines = [id \in GIDs |-> IF id = Caller THEN strRunning ELSE NotStarted]
    /\ Fresh

ReuseWait == CallWait(0)

ReuseNext ==
    \/ CallEval
    \/ ReuseWait
    \/ StackStep
    \/ Grow
    \/ ParseStep
    \/ Check
    \/ Gosched
    \/ GoStep
    \/ BlockStep
    \/ ExitStep

ReuseSpec == ReuseInit /\ [][ReuseNext]_vars

\* builder chains of every method, with Eval and Wait calls between them, on
\* goroutines that do not change: the odd ones blocked, the even ones runnable
BuilderInit ==
    /\ c \in { NewCondition(opts) : opts \in OptLists }
    /\ goroutines = [id \in GIDs |-> IF id = Caller THEN strRunning
                                      ELSE IF id % 2 = 1 THEN strSemacquire
                                      ELSE strRunnable]
    /\ Fresh

BuilderWait == CallWait(0)

BuilderNext ==
    \/ DoFilterByGo
    \/ DoFilterByGoes
    \/ DoGT
    \/ DoLT
    \/ DoEQ
    \/ DoCreatedBy
    \/ DoIs
    \/ DoNot
    \/ DoIn
    \/ Recover
    \/ CallEval
    \/ BuilderWait
    \/ StackStep
    \/ Grow
    \/ ParseStep
    \/ Check
    \/ Gosched

BuilderSpec == BuilderInit /\ [][BuilderNext]_vars

\* chains of Is, Not and In over a few states, In with no state included,
\* and Eval on any goroutines
AlgebraStates == {StateRunnable, StateRunning, StateWaitingLock}
AlgebraLists ==
    { <<>>, <<StateRunnable>>, <<StateWaitingLock>>,
      <<StateRunnable, StateWaitingLock>>, <<StateWaitingLock, StateRunning>> }

AlgebraInit ==
    /\ c = NewCondition(<<>>)
    /\ goroutines \in GoroutineStates
    /\ Fresh

AlgebraIs == \E st \in AlgebraStates : Build(Is(c, st))
AlgebraNot == \E st \in AlgebraStates : Build(Not(c, st))
AlgebraIn == \E ss \in AlgebraLists : Build(In(c, ss))

AlgebraNext ==
    \/ AlgebraIs
    \/ AlgebraNot
    \/ AlgebraIn
    \/ CallEval
    \/ StackStep
    \/ ParseStep

AlgebraSpec == AlgebraInit /\ [][AlgebraNext]_vars

(***************************************************************************)
(* Reference definitions the claims are stated with.                       *)
(***************************************************************************)
\* the live goroutines, by id, as Goroutine records
RECURSIVE SnapshotFrom(_, _)
SnapshotFrom(gor, id) ==
    IF id \notin DOMAIN gor THEN <<>>
    ELSE IF gor[id] = NotStarted THEN SnapshotFrom(gor, id + 1)
    ELSE << [ID |-> id, State |-> gor[id], CreatedBy |-> CreatedByOf(id)] >>
         \o SnapshotFrom(gor, id + 1)

Snapshot(gor) == SnapshotFrom(gor, Caller)

\* the order-preserving subsequence of cand a unit predicate accepts
Accepted(f, cand) == SelectSeq(cand, LAMBDA g : CallGo(f, g))

\* the fold over the predicates from position k on, on the candidate set cand:
\* the final candidate set, and the position that rejected (0: none did)
RECURSIVE Fold(_, _, _)
Fold(fs, k, cand) ==
    IF k > Len(fs) THEN [gs |-> cand, at |-> 0]
    ELSE IF fs[k].type = TypeGo
    THEN IF Accepted(fs[k], cand) = <<>>
         THEN [gs |-> <<>>, at |-> k]
         ELSE Fold(fs, k + 1, Accepted(fs[k], cand))
    ELSE IF CallGoes(fs[k], cand)
         THEN Fold(fs, k + 1, cand)
         ELSE [gs |-> <<>>, at |-> k]

\* an Eval call has returned without error
EvalReturned == pc = "done" /\ call = "Eval" /\ ~parseFailed

\* the permutations of 1..len
Perms(len) == { p \in [1..len -> 1..len] : \A i, j \in 1..len : p[i] = p[j] => i = j }

\* the sequence fs in the order p
Permuted(fs, p) == [i \in 1..Len(fs) |-> fs[p[i]]]

\* the unit predicates standing before position k of fs
UnitsBefore(fs, k) == { fs[i] : i \in { j \in 1..(k - 1) : fs[j].type = TypeGo } }

\* p keeps, for every set predicate, the same unit predicates ahead of it
KeepsCuts(fs, p) ==
    \A k \in 1..Len(fs) :
        fs[p[k]].type = TypeGoes => UnitsBefore(Permuted(fs, p), k) = UnitsBefore(fs, p[k])

\* every filter a builder call of this model appends
AllFilters ==
    { Filter(TypeGo, f, <<>>) : f \in UserGo }
    \cup { Filter(TypeGoes, f, <<>>) : f \in UserGoes }
    \cup { Filter(TypeGoes, fn, <<v>>) : fn \in {"GT", "LT", "EQ"}, v \in CountArgs }
    \cup { Filter(TypeGo, fn, <<st>>) : fn \in {"Is", "Not"}, st \in StateArgs }
    \cup { Filter(TypeGo, "In", ss) : ss \in InArgs }

\* the set predicates that accept an empty candidate set
AcceptNone == { f \in AllFilters : f.type = TypeGoes /\ CallGoes(f, <<>>) }

\* filter lists to append: every single filter, and every filter behind a set
\* predicate that would let an empty candidate set pass
Appended == { <<f>> : f \in AllFilters } \cup { <<f, g>> : f \in AcceptNone, g \in AllFilters }

(***************************************************************************)
(* The claims.                                                             *)
(***************************************************************************)
\* C1: Eval returns what the fold over the filters in insertion order yields,
\* starting from the whole snapshot: a unit predicate narrows the candidate set
\* to the units it accepts, a set predicate is asked about the candidate set at
\* its position, and the result is the final set, or empty after a rejection.
C1_EvalIsFold ==
    EvalReturned =>
        /\ parsed = Snapshot(goroutines)
        /\ ret = [gs |-> Fold(c.filters, 1, Snapshot(goroutines)).gs, err |-> NoErr]

\* C1 witness: a set predicate after a unit predicate accepted the narrowed
\* set although it rejects the whole snapshot.
C1_Witness ==
    /\ EvalReturned
    /\ Len(c.filters) = 2
    /\ c.filters[1].type = TypeGo
    /\ c.filters[2].type = TypeGoes
    /\ Len(ret.gs) > 0
    /\ Len(ret.gs) < Len(parsed)
    /\ ~CallGoes(c.filters[2], parsed)

\* C2 as claimed: Eval returns the same result for every permutation of the
\* filter list.
C2_Commute ==
    EvalReturned =>
        \A p \in Perms(Len(c.filters)) :
            ApplyFilters(Permuted(c.filters, p), parsed).gs = ret.gs

\* C2 as amended: Eval returns the same result for every permutation that
\* keeps, for each set predicate, the same unit predicates ahead of it; a list
\* of unit predicates only yields the units that satisfy all of them.
C2_CommuteWithinCuts ==
    EvalReturned =>
        /\ \A p \in Perms(Len(c.filters)) :
              KeepsCuts(c.filters, p) =>
                  ApplyFilters(Permuted(c.filters, p), parsed).gs = ret.gs
        /\ (\A k \in 1..Len(c.filters) : c.filters[k].type = TypeGo) =>
              ret.gs = SelectSeq(Snapshot(goroutines),
                                 LAMBDA g : \A k \in 1..Len(c.filters) : CallGo(c.filters[k], g))

\* C2 witness: two different unit predicates, each rejecting some unit, left a
\* non-empty result.
C2_Witness ==
    /\ EvalReturned
    /\ Len(c.filters) = 2
    /\ c.filters[1].type = TypeGo
    /\ c.filters[2].type = TypeGo
    /\ c.filters[1] # c.filters[2]
    /\ Len(Accepted(c.filters[1], parsed)) < Len(parsed)
    /\ Len(ret.gs) > 0
    /\ Len(ret.gs) < Len(Accepted(c.filters[1], parsed))

\* C3: when the filter at position i rejects (a unit predicate leaves nothing,
\* a set predicate returns false), Eval returns the empty result and no error,
\* calls no filter after i, and does the same with the filters of Appended
\* added behind the list.
C3_ShortCircuit ==
    (EvalReturned /\ Fold(c.filters, 1, parsed).at > 0) =>
        /\ ret = NoResult
        /\ called = Fold(c.filters, 1, parsed).at
        /\ \A q \in Appended :
              LET longer == ApplyFilters(c.filters \o q, parsed)
              IN longer.gs = <<>> /\ longer.called = called

\* C3 witness: the first of two filters rejected and the second was not called.
C3_Witness ==
    /\ EvalReturned
    /\ Len(c.filters) = 2
    /\ Fold(c.filters, 1, parsed).at = 1
    /\ called = 1
    /\ ret = NoResult

\* C4: Eval on a Condition with no filters returns every live goroutine, in
\* order, and no error.
C4_EmptyIsIdentity ==
    (EvalReturned /\ c.filters = <<>>) =>
        ret = [gs |-> Snapshot(goroutines), err |-> NoErr]

\* C4 witness: Eval without filters returned the caller and every other goroutine.
C4_Witness ==
    /\ EvalReturned
    /\ c.filters = <<>>
    /\ Len(ret.gs) = 1 + MaxGoroutines

\* a Wait call is under way: it has not returned
Waiting == call = "Wait" /\ pc # "done"

\* Wait is between two Evals or inside one
Polling == pc \in {"stack", "grow", "parse", "yield"}

\* C5: Wait returns the result of its first Eval that returns goroutines,
\* unchanged and with a nil error; it starts no Eval after that one, every
\* Eval before it returned nothing and no error, and a returned Wait takes no
\* further step.
C5_FirstResult ==
    call = "Wait" =>
        /\ Polling => ~settled
        /\ (pc = "done" /\ res.err = NoErr /\ Len(res.gs) > 0) => ret = res
        /\ (pc = "done" /\ ret.err = NoErr) => (ret = res /\ Len(ret.gs) > 0)
        /\ pc = "done" => ~ENABLED CallerStep

\* C5 witness: a Wait that polled returned every blocked goroutine.
C5_Witness ==
    /\ call = "Wait"
    /\ pc = "done"
    /\ polled
    /\ ret.err = NoErr
    /\ Len(ret.gs) = MaxGoroutines
    /\ Len(c.filters) = 2

\* every Eval that starts returns: its capture loop has a buffer that can grow
EvalsReturn == c.buf.len > 0

\* C6, in every state: a Wait with a positive timeout is over at the first
\* check that finds the elapsed time above the timeout; ErrTimeout is returned
\* then, with no goroutines, if no Eval returned goroutines or an error, and
\* only then.
C6_Deadline ==
    (call = "Wait" /\ timeout > 0) =>
        /\ pc # "done" => ~expired
        /\ (pc = "done" /\ ~settled) => (expired /\ ret = [gs |-> <<>>, err |-> ErrTimeout])
        /\ ret.err = ErrTimeout => (expired /\ ~settled /\ ret.gs = <<>> /\ now - start > timeout)

\* C6: with a positive timeout, while every Eval returns nothing and the clock
\* advances, Wait ends at the first check past the deadline, with ErrTimeout
\* and no goroutines, and starts no Eval after it.
C6_Timeout ==
    /\ []C6_Deadline
    /\ (Waiting /\ timeout > 0 /\ EvalsReturn) ~> (pc = "done")

\* C6 witness: a Wait that polled returned ErrTimeout.
C6_Witness ==
    /\ call = "Wait"
    /\ pc = "done"
    /\ polled
    /\ timeout > 0
    /\ ret = [gs |-> <<>>, err |-> ErrTimeout]

\* C7: a Wait with a zero or negative timeout never returns ErrTimeout; it
\* returns only goroutines or the error of an Eval, and polls until then.
C7_NoDeadline ==
    (call = "Wait" /\ timeout <= 0) =>
        /\ ret.err # ErrTimeout
        /\ pc = "done" => (settled /\ (Len(ret.gs) > 0 \/ ret.err = ErrParse))

\* C7 witness: a Wait with timeout zero is still polling after time has passed.
C7_Witness ==
    /\ call = "Wait"
    /\ timeout = 0
    /\ pc = "yield"
    /\ polled
    /\ now - start > 0

\* C8: Eval returns an error exactly when stack.ParseDump failed, and then no
\* goroutines and without calling a filter; Wait returns that error and no
\* goroutines after the first Eval that fails, whatever the timeout and the
\* elapsed time, and starts no other Eval.
C8_ErrorPath ==
    call = "Wait" =>
        /\ res.err # NoErr <=> parseFailed
        /\ parseFailed => (res = [gs |-> <<>>, err |-> ErrParse] /\ called = 0)
        /\ parseFailed => pc \in {"check", "done"}
        /\ (parseFailed /\ pc = "done") => ret = [gs |-> <<>>, err |-> ErrParse]
        /\ ret.err = ErrParse => parseFailed

\* C8 witness: a Wait past its deadline returned the parse error of a later Eval.
C8_Witness ==
    /\ call = "Wait"
    /\ pc = "done"
    /\ polled
    /\ timeout > 0
    /\ now - start > timeout
    /\ Len(c.filters) > 0
    /\ ret = [gs |-> <<>>, err |-> ErrParse]

\* doublings that take a buffer of size from to size upto or more (from > 0)
RECURSIVE Doublings(_, _)
Doublings(from, upto) == IF from >= upto THEN 0 ELSE 1 + Doublings(2 * from, upto)

\* the size from which runtime.Stack reports fewer bytes than the buffer holds
Threshold == Len(DumpText(goroutines)) + 1

\* C9 as claimed: from every initial buffer size the constructor accepts, the
\* capture loop of Eval ends, and after no more than ceil(log2(S/initialSize))
\* doublings.
C9_GrowthConverges ==
    /\ [](len0 > 0 /\ pc \in {"stack", "grow", "parse"}
            => Doublings(len0, c.buf.len) <= Doublings(len0, Threshold))
    /\ (pc \in {"stack", "grow"}) ~> (pc = "parse")

\* C10 as claimed: whatever the sizing hints, Eval ends and returns what the
\* filters yield on the live goroutines.
C10_HintsAreTuning ==
    /\ [](EvalReturned
            => ret = [gs |-> Fold(c.filters, 1, Snapshot(goroutines)).gs, err |-> NoErr])
    /\ (call = "Eval" /\ pc # "done") ~> (pc = "done")

\* the documented rules: exact reasons, then prefixes in this order
ExactRules ==
    << <<strIdle, StateIdle>>, <<strRunnable, StateRunnable>>, <<strRunning, StateRunning>>,
       <<strSysCall, StateSysCall>>, <<strWaiting, StateWaiting>>, <<strDead, StateDead>>,
       <<strEnqueue, StateEnqueue>>, <<strCopyStack, StateCopyStack>>,
       <<strSleeping, StateSleeping>>, <<strWaitingIO, StateWaitingIO>> >>

PrefixRules ==
    << <<strWaitingLock, StateWaitingLock>>, <<strWaitingChannel, StateWaitingChannel>>,
       <<strWaitingSelect, StateWaitingSelect>> >>

\* s begins with p, character by character
StartsWith(s, p) == Len(s) >= Len(p) /\ \A i \in 1..Len(p) : s[i] = p[i]

\* p occurs in s
Occurs(s, p) == \E k \in 0..(Len(s) - Len(p)) : \A i \in 1..Len(p) : s[k + i] = p[i]

UpperCase == <<"A", "B", "C", "D", "E", "F", "G", "H", "I", "J", "K", "L", "M",
               "N", "O", "P", "Q", "R", "S", "T", "U", "V", "W", "X", "Y", "Z">>
LowerCase == <<"a", "b", "c", "d", "e", "f", "g", "h", "i", "j", "k", "l", "m",
               "n", "o", "p", "q", "r", "s", "t", "u", "v", "w", "x", "y", "z">>

\* s with its capital letters replaced by small ones
Lowered(s) ==
    [i \in 1..Len(s) |->
        IF \E k \in 1..26 : UpperCase[k] = s[i]
        THEN LowerCase[CHOOSE k \in 1..26 : UpperCase[k] = s[i]]
        ELSE s[i]]

\* the rule-2 prefixes s begins with, by position in PrefixRules
PrefixHits(s) == { i \in DOMAIN PrefixRules : StartsWith(s, PrefixRules[i][1]) }

\* the GC rule of the documentation
GCRule(s) == StartsWith(Lowered(s), strWaitingGCActivity2) \/ Occurs(Lowered(s), strWaitingGCActivity1)

\* first match wins
Classify(s) ==
    IF \E i \in DOMAIN ExactRules : ExactRules[i][1] = s
    THEN ExactRules[CHOOSE i \in DOMAIN ExactRules : ExactRules[i][1] = s][2]
    ELSE IF PrefixHits(s) # {}
    THEN PrefixRules[CHOOSE i \in PrefixHits(s) : \A j \in PrefixHits(s) : i <= j][2]
    ELSE IF GCRule(s) THEN StateWaitingGCActivity
    ELSE StateOther

Invalid == { fun \in Patterns : ~Compile(fun).ok }

\* the closure a CreatedBy without the compile check would append for fun
Unchecked(fun) == [Filter(TypeGo, "CreatedBy", <<>>) EXCEPT !.re = Compile(fun).prog]

\* C14: CreatedBy with a pattern that does not compile panics at the call: no
\* step appends a filter made from such a pattern, the step that panics leaves
\* the filter list and the buffer as they were, and no filter list an Eval
\* runs over holds a filter made from such a pattern.
C14_InvalidPattern ==
    /\ [](\A k \in 1..Len(c.filters) : \A fun \in Invalid : c.filters[k] # Unchecked(fun))
    /\ [][ /\ \A fun \in Invalid : c'.filters # Append(c.filters, Unchecked(fun))
           /\ pc' = "panic" => c' = c ]_vars

\* C14 witness: a CreatedBy call panicked on a Condition that already holds
\* one CreatedBy filter.
C14_Witness ==
    /\ pc = "panic"
    /\ Len(c.filters) = 1
    /\ c.filters[1].fn = "CreatedBy"

\* the spawned goroutines of the lock scenario that are blocked on the lock
Locked == { id \in LockGIDs : NewState(goroutines[id]) = StateWaitingLock }

\* C12, in every state: a Wait of the lock scenario that returned without
\* error returned exactly three records, one for each spawned goroutine, all
\* created by the test and all waiting on a lock, and all three goroutines are
\* blocked then; an Eval that saw fewer than three blocked goroutines returned
\* nothing and one that saw all three blocked returned them; Wait returns
\* ErrTimeout only past the deadline and after an Eval that returned nothing.
C12_LockResult ==
    call = "Wait" =>
        /\ (pc \in {"check", "yield", "done"} /\ ~parseFailed /\ res # NoResult) =>
              /\ Len(res.gs) = LockUnits
              /\ { res.gs[i].ID : i \in 1..Len(res.gs) } = LockGIDs
              /\ \A i \in 1..Len(res.gs) :
                    /\ res.gs[i].CreatedBy = fnTest
                    /\ NewState(res.gs[i].State) = StateWaitingLock
              /\ Locked = LockGIDs
        /\ (pc \in {"check", "yield", "done"} /\ ~parseFailed
              /\ \A id \in LockGIDs : \E i \in 1..Len(parsed) :
                    parsed[i].ID = id /\ NewState(parsed[i].State) = StateWaitingLock) =>
              res # NoResult
        /\ (pc = "done" /\ ret.err = NoErr) => (ret = res /\ res # NoResult)
        /\ ret.err = ErrTimeout => (now - start > timeout /\ res = NoResult)

\* C12: in the lock scenario, with every goroutine scheduled again and again,
\* the above holds in every state and Wait returns.
C12_LockScenario ==
    /\ []C12_LockResult
    /\ Waiting ~> (pc = "done")

\* C12 witness: the Wait of the lock scenario polled and then returned the
\* three blocked goroutines before its deadline.
C12_Witness ==
    /\ call = "Wait"
    /\ pc = "done"
    /\ polled
    /\ now - start <= timeout
    /\ ret.err = NoErr
    /\ Len(ret.gs) = LockUnits

\* a, from element i on, can be picked in order out of b from element j on
RECURSIVE PickedFrom(_, _, _, _)
PickedFrom(a, i, b, j) ==
    IF i > Len(a) THEN TRUE
    ELSE IF j > Len(b) THEN FALSE
    ELSE IF a[i] = b[j] THEN PickedFrom(a, i + 1, b, j + 1)
    ELSE PickedFrom(a, i, b, j + 1)

\* a is an order-preserving subsequence of b
IsSubsequence(a, b) == PickedFrom(a, 1, b, 1)

\* the filter loop after each of its first k rounds, k from 0 to the number of filters
Rounds(fs, snapshot) == [k \in 0..Len(fs) |-> ApplyFilters(SubSeq(fs, 1, k), snapshot)]

\* C13: in one Eval, the candidate set after each filter is an
\* order-preserving subsequence of the candidate set before it and so of the
\* snapshot; it is never longer, and after a set predicate that accepts it is
\* the same sequence.
C13_Narrowing ==
    EvalReturned =>
        LET round == Rounds(c.filters, parsed)
        IN /\ ret.gs = round[Len(c.filters)].gs
           /\ \A k \in 1..Len(c.filters) :
                 ~round[k - 1].rejected =>
                    /\ IsSubsequence(round[k].gs, round[k - 1].gs)
                    /\ IsSubsequence(round[k].gs, Snapshot(goroutines))
                    /\ Len(round[k].gs) <= Len(round[k - 1].gs)
                    /\ (c.filters[k].type = TypeGoes /\ ~round[k].rejected) =>
                          round[k].gs = round[k - 1].gs

\* C13 witness: a set predicate accepted the whole snapshot and a unit
\* predicate after it kept some goroutines and dropped others.
C13_Witness ==
    /\ EvalReturned
    /\ Len(c.filters) = 2
    /\ c.filters[1].type = TypeGoes
    /\ c.filters[2].type = TypeGo
    /\ Len(ret.gs) > 0
    /\ Len(ret.gs) < Len(parsed)

\* C15, one step: the buffer's length changes only in a growth round, which
\* doubles it; a dump that fits strictly leaves it; a call starts on the
\* buffer the call before left, whatever that call returned.
C15_Step ==
    /\ c'.buf.len >= c.buf.len
    /\ c'.buf.len # c.buf.len => (pc = "grow" /\ n = c.buf.len)
    /\ (pc = "grow" /\ pc' = "stack") => c'.buf.len = 2 * c.buf.len
    /\ (pc = "stack" /\ pc' = "parse") => (n' < c.buf.len /\ c'.buf.len = c.buf.len)
    /\ (pc \in {"idle", "done"} /\ pc' = "stack") => (c'.buf = c.buf /\ len0' = c.buf.len)

\* C15: over any sequence of Eval and Wait calls on one Condition the length
\* of the buffer never decreases, and every Eval runs on a buffer at least as
\* long as the one it started with.
C15_BufferGrows ==
    /\ [](len0 <= c.buf.len)
    /\ [][C15_Step]_vars

\* C15 witness: an Eval that started on a buffer an earlier call had grown
\* grew it again and returned a parse error.
C15_Witness ==
    /\ call = "Eval"
    /\ pc = "done"
    /\ parseFailed
    /\ len0 > 1
    /\ len0 < c.buf.len
    /\ c.buf.len < defaultBufSize

\* C16, one step: a dump is followed by the parse when bytesWritten is below
\* the buffer's length, and by a doubling and a fresh dump when it equals the
\* length; the parse is reached from a dump only, gets the first bytesWritten
\* bytes of that dump, which are the whole dump, and is followed by the return
\* of Eval, which is reached from the parse only.
C16_Step ==
    /\ (pc = "stack" /\ pc' # pc) =>
          /\ n' = Min(Len(DumpText(goroutines)), c.buf.len)
          /\ pc' = IF n' = c.buf.len THEN "grow" ELSE "parse"
          /\ pc' = "parse" => Slice(c'.buf, n') = DumpText(goroutines)
    /\ (pc = "grow" /\ pc' # pc) =>
          /\ pc' = "stack"
          /\ c'.buf = MakeBuf(2 * n)
    /\ (pc' = "parse" /\ pc # pc') => pc = "stack"
    /\ (pc' = "check" /\ pc # pc') => pc = "parse"
    /\ (pc' = "done" /\ pc # pc') => pc = IF call = "Eval" THEN "parse" ELSE "check"
    /\ pc = "parse" =>
          /\ c' = c /\ n' = n
          /\ pc' # pc =>
                /\ pc' \in {"check", "done"}
                /\ ~parseFailed' => parsed' = ParseDump(Slice(c.buf, n))

\* C16: every step of an Eval follows the capture protocol, and the parse is
\* only ever about to run on fewer bytes than the buffer holds.
C16_CaptureProtocol ==
    /\ [](pc = "parse" => (n < c.buf.len /\ Len(Slice(c.buf, n)) = n))
    /\ [](pc = "grow" => n = c.buf.len)
    /\ [][C16_Step]_vars

\* C16 witness: a dump that filled the buffer exactly was not parsed; the
\* parse is about to run on the same dump taken again into a buffer twice as long.
C16_Witness ==
    /\ pc = "parse"
    /\ n = Len(DumpText(goroutines))
    /\ c.buf.len = 2 * n
    /\ len0 < c.buf.len

\* a step of one of the nine builder methods that returns
BuilderReturns ==
    \/ DoFilterByGo
    \/ DoFilterByGoes
    \/ DoGT
    \/ DoLT
    \/ DoEQ
    \/ (DoCreatedBy /\ pc' # "panic")
    \/ DoIs
    \/ DoNot
    \/ DoIn

\* C17, one step: a builder method that returns has put exactly one filter at
\* the end of the list, left the filters before it and the buffer as they
\* were, called no filter and taken no dump; no other step changes the list.
C17_Step ==
    /\ BuilderReturns =>
          /\ Len(c'.filters) = Len(c.filters) + 1
          /\ SubSeq(c'.filters, 1, Len(c.filters)) = c.filters
          /\ c'.buf = c.buf
          /\ called' = 0 /\ n' = 0 /\ parsed' = <<>>
          /\ pc' = "idle"
    /\ c'.filters # c.filters => BuilderReturns

\* C17: builder calls only append, Eval and Wait leave the filter list alone,
\* and what an Eval returns is given by the filter list and the goroutines:
\* Evals of one Condition on the same goroutines return the same, whatever
\* earlier calls left in the buffer.
C17_AppendOnly ==
    /\ [][C17_Step]_vars
    /\ [](EvalReturned =>
            ret = [gs |-> Fold(c.filters, 1, Snapshot(goroutines)).gs, err |-> NoErr])

\* C17 witness: an Eval returned goroutines on the buffer an earlier call had
\* grown, through a list of two different filters.
C17_Witness ==
    /\ EvalReturned
    /\ Len(c.filters) = 2
    /\ c.filters[1] # c.filters[2]
    /\ len0 > 1
    /\ len0 = c.buf.len
    /\ len0 < defaultBufSize
    /\ Len(ret.gs) > 0

\* the deadline of the Wait under way has passed
PastDeadline == timeout > 0 /\ now - start > timeout

\* C18, one step: Wait returns only from the checks after an Eval, which look
\* at the error first, then at a non-empty result, then at the deadline; an
\* error or a non-empty result is returned whatever the elapsed time.
C18_Step ==
    /\ (call = "Wait" /\ pc' = "done" /\ pc # pc') => pc = "check"
    /\ (pc' = "check" /\ pc # pc') => pc = "parse"
    /\ (pc = "check" /\ pc' # pc) =>
          IF res.err # NoErr THEN pc' = "done" /\ ret' = [gs |-> <<>>, err |-> res.err]
          ELSE IF Len(res.gs) > 0 THEN pc' = "done" /\ ret' = res
          ELSE IF PastDeadline THEN pc' = "done" /\ ret' = [gs |-> <<>>, err |-> ErrTimeout]
          ELSE pc' = "yield"

\* C18: the order of Wait's checks holds at every step, and a Wait that
\* returned ErrTimeout saw no Eval return goroutines or an error.
C18_Precedence ==
    /\ [][C18_Step]_vars
    /\ []((call = "Wait" /\ ret.err = ErrTimeout) => (~settled /\ res = NoResult))

\* C18 witness: a Wait returned goroutines from an Eval that ended after the
\* deadline had passed.
C18_Witness ==
    /\ call = "Wait"
    /\ pc = "done"
    /\ PastDeadline
    /\ polled
    /\ ret.err = NoErr
    /\ Len(ret.gs) > 0

\* C19, one step: inside a Wait a new Eval starts from the yield only; the
\* yield is reached only from the checks after an Eval that returned nothing
\* and no error, with the deadline not passed; the step from the yield into
\* the next Eval takes no time.
C19_Step ==
    /\ (pc' = "stack" /\ pc \notin {"stack", "grow", "idle", "done"}) => pc = "yield"
    /\ (pc' = "yield" /\ pc # pc') =>
          /\ pc = "check"
          /\ res = NoResult
          /\ ~PastDeadline
    /\ (pc = "yield" /\ pc' # pc) =>
          /\ pc' = "stack"
          /\ now' = now
          /\ goroutines' = goroutines

\* C19: every step keeps to this, and at the yield both the caller and every
\* observed goroutine that has a step to take can run, whatever the clock.
C19_Yield ==
    /\ [][C19_Step]_vars
    /\ [](pc = "yield" =>
            /\ call = "Wait"
            /\ ENABLED Gosched
            /\ \A id \in Spawned :
                  /\ goroutines[id] = NotStarted => ENABLED Go(id)
                  /\ goroutines[id] = strRunnable => ENABLED Block(id, strSemacquire))

\* C19 witness: at the second yield of a Wait or a later one, a goroutine
\* that the Eval before saw runnable is blocked.
C19_Witness ==
    /\ call = "Wait"
    /\ pc = "yield"
    /\ polled
    /\ \E i \in 1..Len(parsed) :
          /\ parsed[i].ID \in Spawned
          /\ parsed[i].State = strRunnable
          /\ goroutines[parsed[i].ID] = strSemacquire

\* the records of a sequence of goroutines
Records(gs) == { gs[i] : i \in 1..Len(gs) }

\* C20, one step: the dump that goes to the parse holds the goroutines live
\* when it was taken and nothing else; it is not touched until it is parsed;
\* the parse and the filters run on it alone; the next cycle starts from
\* nothing.
C20_Step ==
    /\ (pc = "stack" /\ pc' = "parse") => ParseDump(Slice(c'.buf, n')) = Snapshot(goroutines)
    /\ (pc = "parse" /\ pc' = pc) => (c'.buf = c.buf /\ n' = n)
    /\ (pc = "parse" /\ pc' # pc /\ ~parseFailed') =>
          /\ parsed' = ParseDump(Slice(c.buf, n))
          /\ res' = [gs |-> Fold(c.filters, 1, parsed').gs, err |-> NoErr]
    /\ (pc' = "stack" /\ pc \notin {"stack", "grow"}) => (parsed' = <<>> /\ res' = NoResult)
    /\ (pc = "grow" /\ pc' = "stack") => c'.buf.data = <<>>

\* C20: every step keeps to this, and every record an Eval or a Wait returns
\* is a record of the snapshot parsed in the Eval that returned it.
C20_SingleSnapshot ==
    /\ [][C20_Step]_vars
    /\ []((pc \in {"check", "done"} /\ call \in {"Eval", "Wait"}) =>
            /\ Records(res.gs) \subseteq Records(parsed)
            /\ Records(ret.gs) \subseteq Records(parsed)
            /\ ~parseFailed => parsed = ParseDump(Slice(c.buf, n)))

\* C20 witness: a Wait returned goroutines from its second Eval or a later
\* one while the buffer still holds, behind the dump parsed, bytes of an
\* earlier and longer dump.
C20_Witness ==
    /\ call = "Wait"
    /\ pc = "done"
    /\ polled
    /\ ret.err = NoErr
    /\ Len(ret.gs) > 0
    /\ Len(c.buf.data) > n

\* the closure a builder call appends to an empty Condition
IsOf(st) == Is(NewCondition(<<>>), st).filters[1]
NotOf(st) == Not(NewCondition(<<>>), st).filters[1]
InOf(ss) == In(NewCondition(<<>>), ss).filters[1]

\* the states a chain of Not filters names, in order
NotArgs(fs) == [k \in 1..Len(fs) |-> fs[k].arg[1]]

\* C21, on the goroutines of a snapshot: for every state exactly one of Is
\* and Not accepts a goroutine, In of one state accepts what Is accepts, In of
\* a list accepts what Is of some listed state accepts, and In of no state
\* accepts nothing.
C21_Units ==
    \A i \in 1..Len(parsed) :
        /\ \A st \in StateIdle..StateOther :
              /\ CallGo(IsOf(st), parsed[i]) # CallGo(NotOf(st), parsed[i])
              /\ CallGo(InOf(<<st>>), parsed[i]) = CallGo(IsOf(st), parsed[i])
        /\ \A ss \in AlgebraLists :
              CallGo(InOf(ss), parsed[i]) = (\E k \in 1..Len(ss) : CallGo(IsOf(ss[k]), parsed[i]))
        /\ ~CallGo(InOf(<<>>), parsed[i])

\* C21: the above, and in what Eval returns: a single In returns the
\* goroutines Is of a listed state accepts, and a chain of Not returns the
\* goroutines In of the same states rejects.
C21_Algebra ==
    EvalReturned =>
        /\ C21_Units
        /\ (Len(c.filters) = 1 /\ c.filters[1].fn = "In") =>
              ret.gs = SelectSeq(parsed,
                                 LAMBDA g : \E k \in 1..Len(c.filters[1].arg) :
                                               CallGo(IsOf(c.filters[1].arg[k]), g))
        /\ (Len(c.filters) = 1 /\ c.filters[1].fn = "Is") =>
              ret.gs = SelectSeq(parsed, LAMBDA g : ~CallGo(NotOf(c.filters[1].arg[1]), g))
        /\ (\A k \in 1..Len(c.filters) : c.filters[k].fn = "Not") =>
              ret.gs = SelectSeq(parsed, LAMBDA g : ~CallGo(InOf(NotArgs(c.filters)), g))

\* C21 witness: a chain of Not over two different states returned some
\* goroutines of the snapshot and dropped others.
C21_Witness ==
    /\ EvalReturned
    /\ Len(c.filters) = 2
    /\ c.filters[1].fn = "Not"
    /\ c.filters[2].fn = "Not"
    /\ c.filters[1] # c.filters[2]
    /\ Len(ret.gs) > 0
    /\ Len(ret.gs) < Len(parsed)

====
